---- MODULE Spec2Model ----
(***************************************************************************)
(* ImageController of fhir-image-db: the upload, delete and purge          *)
(* handlers, the asset directory assets/images and the FHIR registry       *)
(* they talk to.  Every handler is an async function; each action below    *)
(* is one stretch of a handler between two suspensions (await), with the   *)
(* effect of the awaited I/O call.  Several requests run interleaved.      *)
(*                                                                         *)
(* Strings that the code takes apart or puts together (file names, URLs,   *)
(* FHIR references) are sequences of tokens, so that path.basename,        *)
(* path.extname, path.parse and the template strings are computed.  A file  *)
(* path is the sequence of its segments, each a sequence of tokens, so      *)
(* that path.join resolves "." and "..".                                    *)
(***************************************************************************)
EXTENDS Naturals, Sequences, FiniteSets, TLC

\* ------------------------------------------------------------- bounds
\* Number of requests the server handles, all of them possibly in flight.
MaxReq == 2

Reqs == 1..MaxReq

\* ------------------------------------------------------------- configuration
apiBaseUrl == <<"https:", "/", "/", "imagedb.fhir.tw">>

Marker == <<".gitkeep">>

AllowedFormats == {"jpeg", "png", "gif", "webp"}

ThumbSize == 128

OctetStream == "application/octet-stream"

\* ------------------------------------------------------------- path helpers
Last(s) == s[Len(s)]

Front(s) == SubSeq(s, 1, Len(s) - 1)

\* tokens that are an extension ("." followed by letters)
DotTokens == {".png", ".jpeg", ".gif", ".webp", ".txt", ".TIF", ".tif"}

\* `.${imageType}`
DotExt(fmt) ==
  CASE fmt = "png" -> ".png"
    [] fmt = "jpeg" -> ".jpeg"
    [] fmt = "gif" -> ".gif"
    [] fmt = "webp" -> ".webp"
    [] OTHER -> ".tif"

\* String.prototype.toLowerCase on a token
ToLowerCase(tok) ==
  CASE tok = ".TIF" -> ".tif"
    [] OTHER -> tok

\* path.extname: the last "."-part of the name, "" (no token) when there is
\* none or when the name starts with the dot
ExtName(name) ==
  IF Len(name) >= 2 /\ Last(name) \in DotTokens THEN <<Last(name)>> ELSE <<>>

\* path.parse(...).name and .ext
ParseName(name) == SubSeq(name, 1, Len(name) - Len(ExtName(name)))

ParseExt(name) == ExtName(name)

RECURSIVE StripSlashes(_)
StripSlashes(s) ==
  IF s # <<>> /\ Last(s) = "/" THEN StripSlashes(Front(s)) ELSE s

RECURSIVE AfterLastSlash(_)
AfterLastSlash(s) ==
  IF s = <<>> \/ Last(s) = "/" THEN <<>>
  ELSE Append(AfterLastSlash(Front(s)), Last(s))

\* faulty variant: what follows `${apiBaseUrl}/images/` is taken whole
UrlPath(p) == SubSeq(p, Len(apiBaseUrl) + 4, Len(p))

\* path.basename: trailing slashes dropped, then what follows the last slash
Basename(p) == AfterLastSlash(StripSlashes(p))

\* faulty variant: the URL names the file without its extension
ImageUrlWithoutExtension(name) == apiBaseUrl \o <<"/", "images", "/">> \o ParseName(name)

\* `${apiBaseUrl}/images/${name}`
ImageUrl(name) == apiBaseUrl \o <<"/", "images", "/">> \o name

\* `/images/${name}`
ImagePath(name) == <<"/", "images", "/">> \o name

\* `${apiBaseUrl}/delete/${id}`
DeleteLink(id) == apiBaseUrl \o <<"/", "delete", "/", id>>

\* `DocumentReference/${id}`
DocRefOf(id) == <<"DocumentReference", "/", id>>

\* sails.config.appPath, the directory the application is lifted from
AppPath == << <<"srv">>, <<"fhir-image-db">> >>

\* the segments of a path string, split at its slashes
RECURSIVE Segments(_)
Segments(s) ==
  IF s = <<>> THEN << <<>> >>
  ELSE LET front == Segments(Front(s))
       IN IF Last(s) = "/" THEN Append(front, <<>>)
          ELSE [front EXCEPT ![Len(front)] = Append(@, Last(s))]

\* path.normalize below a directory: empty and "." segments are dropped,
\* ".." steps up (the root is its own parent)
RECURSIVE Normalize(_, _)
Normalize(dir, segments) ==
  IF segments = <<>> THEN dir
  ELSE IF Head(segments) = <<>> \/ Head(segments) = <<".">>
       THEN Normalize(dir, Tail(segments))
       ELSE IF Head(segments) = <<"..">>
            THEN Normalize(IF dir = <<>> THEN dir ELSE Front(dir), Tail(segments))
            ELSE Normalize(Append(dir, Head(segments)), Tail(segments))

\* path.join(sails.config.appPath, 'assets/images')
AssetDir == Normalize(AppPath, Segments(<<"assets", "/", "images">>))

\* path.join(sails.config.appPath, 'assets/images', filename)
FilePath(filename) ==
  Normalize(AppPath, Segments(<<"assets", "/", "images", "/">> \o filename))

\* ------------------------------------------------------------- inputs
\* What skipper hands over for one uploaded file (uploadedFiles[0]) together
\* with the buffer read from its fd: the bytes, their length, the original
\* file name, the declared MIME type ("" when none) and what
\* sharp(buffer).metadata() finds: a format, or "" when decoding throws.
PngFile ==
  [bytes |-> "png-50x50", size |-> 4, filename |-> <<"photo", ".png">>,
   type |-> "image/png", format |-> "png"]

TiffFile ==
  [bytes |-> "tiff-scan", size |-> 5, filename |-> <<"scan", ".TIF">>,
   type |-> "image/tiff", format |-> "tiff"]

TextFile ==
  [bytes |-> "plain-text", size |-> 2, filename |-> <<"notes", ".txt">>,
   type |-> "", format |-> ""]

EmptyFile ==
  [bytes |-> "", size |-> 0, filename |-> <<"empty", ".png">>,
   type |-> "image/png", format |-> ""]

NoFile == [bytes |-> "", size |-> 0, filename |-> <<>>, type |-> "", format |-> ""]

UploadedFiles == {PngFile, TiffFile, TextFile, EmptyFile}

\* req.body of the upload that brings a file: patientId and practitionerId,
\* "" when not sent
BodyOf(f) ==
  IF f = PngFile THEN [patientId |-> "pat-7", practitionerId |-> "prac-3"]
  ELSE IF f = TiffFile THEN [patientId |-> "pat-7", practitionerId |-> ""]
  ELSE [patientId |-> "", practitionerId |-> ""]

\* crypto.randomBytes(8).toString('hex'): no value is excluded, none is
\* checked against the directory
UniqueIds == {"0a1b", "9f3e"}

\* ids the registry assigns to created DocumentReferences, in this order
DocIdSeq == <<"101", "102", "103", "104", "105">>

\* req.params.id of a delete; "" is a request without id
DeleteIds == {"", "100", "101", "102"}

\* ------------------------------------------------------------- records
\* An attachment of DocumentReference.content; size 0 stands for no size
\* (the thumbnail's attachment has none, a stored payload is never empty).
Attachment(contentType, url, size, title) ==
  [contentType |-> contentType, url |-> url, size |-> size, title |-> title]

NoDoc == [content |-> <<>>, subject |-> <<>>, author |-> <<>>]

NoBody ==
  [filename |-> <<>>, size |-> 0, path |-> <<>>, pathThumbnail |-> <<>>,
   url |-> <<>>, delete |-> <<>>, fhir |-> <<>>]

\* what is on disk after each kind of write
RawContent(f) == [kind |-> "raw", bytes |-> f.bytes, side |-> 0]

FullImageContent(f) == [kind |-> "image", bytes |-> f.bytes, side |-> 0]

ThumbnailContent(f) == [kind |-> "thumbnail", bytes |-> f.bytes, side |-> ThumbSize]

MarkerContent == [kind |-> "raw", bytes |-> "", side |-> 0]

IdleReq ==
  [kind |-> "idle", pc |-> "idle", status |-> 0, code |-> "", body |-> NoBody,
   log |-> <<>>,
   \* upload
   file |-> NoFile, patientId |-> "", practitionerId |-> "",
   isImage |-> FALSE, imageType |-> "", uniqueId |-> "",
   filenameFull |-> <<>>, thumbnailFilename |-> <<>>, written |-> {},
   documentReference |-> NoDoc, fhirResponse |-> <<>>,
   \* upload, for the record: whether no other request was running when
   \* the upload came in, and the directory it found if so
   alone |-> FALSE, before |-> <<>>,
   \* delete
   id |-> "", docRef |-> NoDoc, paths |-> <<>>, found |-> <<>>,
   clinicalImpressions |-> <<>>, ci |-> 0, content |-> 0,
   \* purge
   todo |-> {}]

\* one I/O call of a request and how it ended
Call(op, arg, result) == [op |-> op, arg |-> arg, result |-> result]

\* ------------------------------------------------------------- state
VARIABLES
  files,      \* assets/images: file name -> content
  docs,       \* registry: DocumentReference id -> resource
  cis,        \* registry: ClinicalImpression id -> resource
  nextId,     \* registry: index in DocIdSeq of the next id it assigns
  rq,         \* the requests: handler, position, locals, calls made, response
  rewritten,  \* per request: names written by uploads since it read the directory
  outside     \* the files of the host outside assets/images: path -> content

vars == <<files, docs, cis, nextId, rq, rewritten, outside>>

\* The state the server is lifted in: the marker, one image uploaded before
\* (its two files and its DocumentReference 101), three ClinicalImpressions
\* of other clients that point at it, and a DocumentReference 100 that
\* another client of the registry created, with URLs of its own making.
SeedName == <<"0a1b", ".png">>

SeedThumb == <<"0a1b", "_thumb", ".png">>

SeedDoc ==
  [content |->
     <<[attachment |-> Attachment("image/png", ImageUrl(SeedName), 4, "full-image")],
       [attachment |-> Attachment("image/png", ImageUrl(SeedThumb), 0, "thumbnail")]>>,
   subject |-> <<>>, author |-> <<>>]

\* URLs that end in a path out of the directory, in the marker's name and
\* in the name of the parent directory
ForeignDoc ==
  [content |->
     <<[attachment |-> Attachment("image/png",
                                  ImageUrl(<<"..", "/", "..", "/", "app", ".js">>),
                                  4, "full-image")],
       [attachment |-> Attachment("image/png", ImageUrl(Marker), 0, "thumbnail")],
       [attachment |-> Attachment("image/png", ImageUrl(<<"..">>), 0, "thumbnail")]>>,
   subject |-> <<>>, author |-> <<>>]

\* the application's own app.js
AppFile == Append(AppPath, <<"app", ".js">>)

AppContent == [kind |-> "raw", bytes |-> "sails-lift", side |-> 0]

Ref(r) == [reference |-> r]

SeedCIs ==
  ("ci1" :> [id |-> "ci1", isArray |-> TRUE,
             supportingInfo |-> <<Ref(DocRefOf("101")), Ref(<<"Observation", "/", "o1">>),
                                  Ref(DocRefOf("101"))>>])
  @@ ("ci2" :> [id |-> "ci2", isArray |-> TRUE,
                supportingInfo |-> <<Ref(<<"Observation", "/", "o2">>), Ref(DocRefOf("101"))>>])
  @@ ("ci3" :> [id |-> "ci3", isArray |-> TRUE,
                supportingInfo |-> <<Ref(DocRefOf("101") \o <<"/", "_history", "/", "1">>)>>])

\* an entry of the search Bundle that is no ClinicalImpression: the
\* OperationOutcome the registry adds to its answer; it has no supportingInfo
Outcome == [id |-> "outcome", isArray |-> FALSE, supportingInfo |-> <<>>]

Init ==
  /\ files = (Marker :> MarkerContent)
             @@ (SeedName :> FullImageContent(PngFile))
             @@ (SeedThumb :> ThumbnailContent(PngFile))
  /\ docs = ("100" :> ForeignDoc) @@ ("101" :> SeedDoc)
  /\ cis = SeedCIs
  /\ nextId = 2
  /\ rq = [r \in Reqs |-> IdleReq]
  /\ rewritten = [r \in Reqs |-> {}]
  /\ outside = (AppFile :> AppContent)

\* ------------------------------------------------------------- requests
\* request r arrives: requests are numbered in the order of their arrival
\* and come in pairs; the second of a pair may be taken up while the first
\* is still running, in every way two handlers can interleave, and the first
\* of a pair is taken up once all the requests before it have been answered
Arrives(r) ==
  /\ rq[r].kind = "idle"
  /\ \A p \in Reqs : p < r => rq[p].kind # "idle"
  /\ \A p \in Reqs : p + 1 < r => rq[p].pc = "done"
  /\ r % 2 = 1 => \A p \in Reqs : p < r => rq[p].pc = "done"

\* no other request is running
Alone(r) == \A p \in Reqs \ {r} : rq[p].pc \in {"idle", "done"}

\* ------------------------------------------------------------- responses
Respond(q, status, code) == [q EXCEPT !.pc = "done", !.status = status, !.code = code]

\* requests that have read the directory and still act on what they read
Watching(q) == q.pc \in {"check", "unlink", "purge"}

NoteWrite(name) ==
  [q \in Reqs |-> IF Watching(rq[q]) THEN rewritten[q] \cup {name} ELSE rewritten[q]]

\* ------------------------------------------------------------- upload
\* faulty variant: whatever sharp can decode is taken for an image
IsImageFormatAny(fmt) == TRUE

\* ['jpeg', 'png', 'gif', 'webp'].includes(imageType)
IsImageFormat(fmt) == fmt \in AllowedFormats

\* faulty variant: the file is stored under the name the client gave it
FilenameFullOriginalName(isImage, imageType, uniqueId, file) ==
  IF isImage THEN ParseName(file.filename) \o <<DotExt(imageType)>>
  ELSE file.filename

\* the stored name: uniqueId plus the detected format for an image, plus the
\* lower-cased original extension otherwise
FilenameFull(isImage, imageType, uniqueId, file) ==
  IF isImage THEN <<uniqueId, DotExt(imageType)>>
  ELSE <<uniqueId>> \o [i \in 1..Len(ExtName(file.filename)) |->
                          ToLowerCase(ExtName(file.filename)[i])]

\* `${fileName}_thumb${fileExt}`
ThumbnailFilename(filenameFull) ==
  ParseName(filenameFull) \o <<"_thumb">> \o ParseExt(filenameFull)

\* faulty variant: the declared type is ignored
MimeTypeGeneric(file) == OctetStream

\* uploadedFiles[0].type || 'application/octet-stream'
MimeType(file) == IF file.type # "" THEN file.type ELSE OctetStream

\* `image/${imageType}`
ImageContentType(imageType) ==
  CASE imageType = "png" -> "image/png"
    [] imageType = "jpeg" -> "image/jpeg"
    [] imageType = "gif" -> "image/gif"
    [] imageType = "webp" -> "image/webp"
    [] OTHER -> "image/tiff"

DocumentContent(q) ==
  IF q.isImage
  THEN <<[attachment |-> Attachment(ImageContentType(q.imageType),
                                    ImageUrl(q.filenameFull), q.file.size, "full-image")],
         [attachment |-> Attachment(ImageContentType(q.imageType),
                                    ImageUrl(q.thumbnailFilename), 0, "thumbnail")]>>
  ELSE <<[attachment |-> Attachment(MimeType(q.file), ImageUrl(q.filenameFull),
                                    q.file.size, "file")]>>

DocumentReference(q) ==
  [content |-> DocumentContent(q),
   subject |-> IF q.patientId # "" THEN <<"Patient", "/", q.patientId>> ELSE <<>>,
   author |-> IF q.practitionerId # "" THEN <<"Practitioner", "/", q.practitionerId>>
              ELSE <<>>]

\* fhirResponse.id in a template string
FhirId(fhirResponse) == IF fhirResponse = <<>> THEN "undefined" ELSE fhirResponse[1]

UploadBody(q, fhirResponse) ==
  [filename |-> q.filenameFull, size |-> q.file.size,
   path |-> ImagePath(q.filenameFull),
   pathThumbnail |-> IF q.isImage THEN ImagePath(q.thumbnailFilename) ELSE <<>>,
   url |-> ImageUrl(q.filenameFull),
   delete |-> DeleteLink(FhirId(fhirResponse)),
   fhir |-> fhirResponse]

\* faulty variant: the length of the buffer is not looked at
IsEmptyUploadNoLengthCheck(f) == f = NoFile

\* uploadedFiles.length === 0, or !fileBuffer || fileBuffer.length === 0
IsEmptyUpload(f) == f = NoFile \/ f.size = 0

\* skipper's upload (or the read of the uploaded temp file) fails: the outer
\* catch answers 500
UploadReceiveFails(r) ==
  /\ Arrives(r)
  /\ rq' = [rq EXCEPT ![r] =
              Respond([@ EXCEPT !.kind = "upload",
                                !.log = Append(@, Call("receive", "", "error"))],
                      500, "File upload error")]
  /\ UNCHANGED <<files, docs, cis, nextId, rewritten, outside>>

\* no file was uploaded, or the buffer is empty
UploadNoFile(r) ==
  /\ Arrives(r)
  /\ \E f \in UploadedFiles \cup {NoFile} :
       /\ IsEmptyUpload(f)
       /\ rq' = [rq EXCEPT ![r] =
                   Respond([@ EXCEPT !.kind = "upload", !.file = f,
                                     !.log = Append(@, Call("receive", "", "ok"))],
                           400, "E_NO_FILE")]
  /\ UNCHANGED <<files, docs, cis, nextId, rewritten, outside>>

UploadReceive(r) ==
  /\ Arrives(r)
  /\ \E f \in UploadedFiles :
       /\ ~IsEmptyUpload(f)
       /\ rq' = [rq EXCEPT ![r] =
                   [@ EXCEPT !.kind = "upload", !.pc = "classify", !.file = f,
                             !.alone = Alone(r),
                             !.before = IF Alone(r) THEN files ELSE <<>>,
                             !.log = Append(@, Call("receive", "", "ok")),
                             !.patientId = BodyOf(f).patientId,
                             !.practitionerId = BodyOf(f).practitionerId]]
  /\ UNCHANGED <<files, docs, cis, nextId, rewritten, outside>>

\* sharp(fileBuffer).metadata() returns or throws; then the names are derived
UploadClassify(r) ==
  /\ rq[r].pc = "classify"
  /\ \E uniqueId \in UniqueIds :
       LET q == rq[r]
           imageType == q.file.format
           isImage == IF q.file.format = "" THEN FALSE ELSE IsImageFormat(imageType)
           filenameFull == FilenameFull(isImage, imageType, uniqueId, q.file)
       IN rq' = [rq EXCEPT ![r] =
                   [@ EXCEPT !.pc = "store", !.isImage = isImage,
                             !.imageType = imageType, !.uniqueId = uniqueId,
                             !.filenameFull = filenameFull,
                             !.thumbnailFilename =
                               IF isImage THEN ThumbnailFilename(filenameFull) ELSE <<>>]]
  /\ UNCHANGED <<files, docs, cis, nextId, rewritten, outside>>

WriteFile(name, content) == [n \in DOMAIN files \cup {name} |->
                               IF n = name THEN content ELSE files[n]]

\* sharp(...).withMetadata().toFile(imagePath), or fs.promises.writeFile
UploadStoreOriginal(r) ==
  /\ rq[r].pc = "store"
  /\ LET q == rq[r]
         w == [q EXCEPT !.written = @ \cup {q.filenameFull},
                        !.log = Append(@, Call("write", "", "ok"))]
     IN /\ files' = WriteFile(q.filenameFull,
                              IF q.isImage THEN FullImageContent(q.file)
                              ELSE RawContent(q.file))
        /\ rq' = [rq EXCEPT ![r] =
                    IF q.isImage THEN [w EXCEPT !.pc = "thumbnail"]
                    ELSE [w EXCEPT !.pc = "register",
                                   !.documentReference = DocumentReference(q)]]
        /\ rewritten' = NoteWrite(q.filenameFull)
  /\ UNCHANGED <<docs, cis, nextId, outside>>

\* sharp(...).resize(128, 128).withMetadata().toFile(thumbnailPath)
UploadStoreThumbnail(r) ==
  /\ rq[r].pc = "thumbnail"
  /\ LET q == rq[r]
     IN /\ files' = WriteFile(q.thumbnailFilename, ThumbnailContent(q.file))
        /\ rq' = [rq EXCEPT ![r] =
                    [@ EXCEPT !.pc = "register",
                              !.written = @ \cup {q.thumbnailFilename},
                              !.log = Append(@, Call("write", "", "ok")),
                              !.documentReference = DocumentReference(q)]]
        /\ rewritten' = NoteWrite(q.thumbnailFilename)
  /\ UNCHANGED <<docs, cis, nextId, outside>>

\* faulty variant: a failed write is logged and the upload goes on to register
AfterStoreErrorGoesOn(q) == [q EXCEPT !.pc = "register"]

\* where a request goes when a write of its files throws
AfterStoreError(q) == Respond(q, 500, "File upload error")

\* a write throws: the outer catch answers 500
UploadStoreFails(r) ==
  /\ rq[r].pc \in {"store", "thumbnail"}
  /\ rq' = [rq EXCEPT ![r] =
              AfterStoreError([@ EXCEPT !.log = Append(@, Call("write", "", "error"))])]
  /\ UNCHANGED <<files, docs, cis, nextId, rewritten, outside>>

\* axios.post answers 201 with the created resource
UploadRegisterCreated(r) ==
  /\ rq[r].pc = "register"
  /\ nextId <= Len(DocIdSeq)
  /\ LET q == rq[r]
         newId == DocIdSeq[nextId]
     IN /\ docs' = docs @@ (newId :> q.documentReference)
        /\ nextId' = nextId + 1
        /\ rq' = [rq EXCEPT ![r] =
                    Respond([@ EXCEPT !.log = Append(@, Call("POST", newId, "201")),
                                      !.fhirResponse = <<newId>>,
                                      !.body = UploadBody(q, <<newId>>)],
                            200, "")]
  /\ UNCHANGED <<files, cis, rewritten, outside>>

\* what upload answers when axios.post resolves with a status other than 201
AfterNot201(q) == Respond([q EXCEPT !.body = UploadBody(q, <<>>)], 200, "")

\* axios.post resolves with another 2xx status: nothing is taken from it
UploadRegisterNot201(r) ==
  /\ rq[r].pc = "register"
  /\ rq' = [rq EXCEPT ![r] =
              AfterNot201([@ EXCEPT !.log = Append(@, Call("POST", "", "2xx"))])]
  /\ UNCHANGED <<files, docs, cis, nextId, rewritten, outside>>

\* faulty variant: the catch of a failed POST removes the files the upload wrote
AfterRegisterErrorRollsBack(q) == [n \in DOMAIN files \ q.written |-> files[n]]

\* the directory after upload's catch of a failed axios.post
AfterRegisterError(q) == files

\* axios.post throws (no answer, or a status outside 2xx)
UploadRegisterThrows(r) ==
  /\ rq[r].pc = "register"
  /\ rq' = [rq EXCEPT ![r] =
              Respond([@ EXCEPT !.log = Append(@, Call("POST", "", "error"))],
                      500, "Failed to create DocumentReference on FHIR server.")]
  /\ files' = AfterRegisterError(rq[r])
  /\ UNCHANGED <<docs, cis, nextId, rewritten, outside>>

\* ------------------------------------------------------------- delete
\* the registry's search ?supporting-info=DocumentReference/<id>: a reference
\* matches when it names that resource, with or without a version
Matches(reference, id) ==
  /\ Len(reference) >= Len(DocRefOf(id))
  /\ SubSeq(reference, 1, Len(DocRefOf(id))) = DocRefOf(id)

CiOrder == <<"ci1", "ci2", "ci3">>

RECURSIVE SelectSeq2(_, _, _)
SelectSeq2(s, i, id) ==
  IF i > Len(s) THEN <<>>
  ELSE IF /\ s[i] \in DOMAIN cis
          /\ \E k \in 1..Len(cis[s[i]].supportingInfo) :
               Matches(cis[s[i]].supportingInfo[k].reference, id)
       THEN <<cis[s[i]]>> \o SelectSeq2(s, i + 1, id)
       ELSE SelectSeq2(s, i + 1, id)

\* response.data.entry.map(entry => entry.resource)
SearchResult(id) == Append(SelectSeq2(CiOrder, 1, id), Outcome)

\* faulty variant: only the first matching reference is taken out
RECURSIVE FilterFirstOnly(_, _)
FilterFirstOnly(supportingInfo, id) ==
  IF supportingInfo = <<>> THEN <<>>
  ELSE IF supportingInfo[1].reference # DocRefOf(id)
       THEN <<supportingInfo[1]>> \o FilterFirstOnly(Tail(supportingInfo), id)
       ELSE Tail(supportingInfo)

\* supportingInfo.filter(info => info.reference !== `DocumentReference/${id}`)
RECURSIVE FilterSupportingInfo(_, _)
FilterSupportingInfo(supportingInfo, id) ==
  IF supportingInfo = <<>> THEN <<>>
  ELSE IF supportingInfo[1].reference # DocRefOf(id)
       THEN <<supportingInfo[1]>> \o FilterSupportingInfo(Tail(supportingInfo), id)
       ELSE FilterSupportingInfo(Tail(supportingInfo), id)

\* faulty variant: every resource of the search result is pushed back
NeedsUpdateAlways(clinicalImpression, id) == TRUE

\* clinicalImpression.supportingInfo && Array.isArray(...), and then
\* updatedSupportingInfo.length !== clinicalImpression.supportingInfo.length
NeedsUpdate(clinicalImpression, id) ==
  /\ clinicalImpression.isArray
  /\ Len(FilterSupportingInfo(clinicalImpression.supportingInfo, id))
       # Len(clinicalImpression.supportingInfo)

\* the for loop over clinicalImpressions runs on to the next one it PUTs;
\* Len + 1 when there is none
RECURSIVE NextUpdate(_, _, _)
NextUpdate(clinicalImpressions, i, id) ==
  IF i > Len(clinicalImpressions) THEN i
  ELSE IF NeedsUpdate(clinicalImpressions[i], id) THEN i
       ELSE NextUpdate(clinicalImpressions, i + 1, id)

AfterUpdates(q, i) ==
  IF i > Len(q.clinicalImpressions) THEN [q EXCEPT !.ci = i, !.pc = "remove"]
  ELSE [q EXCEPT !.ci = i, !.pc = "update"]

\* the file name a content entry stands for
ContentName(docRef, i) == Basename(docRef.content[i].attachment.url)

\* what a path of the host is: an entry of assets/images, a file elsewhere,
\* the directory assets/images or one above it
InAssetDir(filePath) ==
  /\ Len(filePath) = Len(AssetDir) + 1
  /\ SubSeq(filePath, 1, Len(AssetDir)) = AssetDir

IsFile(filePath) ==
  \/ InAssetDir(filePath) /\ Last(filePath) \in DOMAIN files
  \/ filePath \in DOMAIN outside

IsDirectory(filePath) ==
  /\ Len(filePath) <= Len(AssetDir)
  /\ SubSeq(AssetDir, 1, Len(filePath)) = filePath

\* faulty variant: the check before the unlink is left out
ExistsSyncAlways(filePath) == TRUE

\* fs.existsSync(filePath)
ExistsSync(filePath) == IsFile(filePath) \/ IsDirectory(filePath)

\* the filePath the loop over docRef.content derives for each entry
FilePaths(docRef) ==
  [i \in 1..Len(docRef.content) |-> FilePath(ContentName(docRef, i))]

\* faulty variant: the loop over docRef.content stops after its first entry
NextExistingFirstOnly(paths, i) ==
  IF i = 1 /\ Len(paths) >= 1 /\ ExistsSync(paths[1]) THEN 1
  ELSE Len(paths) + 1

\* the for loop over docRef.content runs on to the next entry whose file
\* exists; Len + 1 when there is none
RECURSIVE NextExisting(_, _)
NextExisting(paths, i) ==
  IF i > Len(paths) THEN i
  ELSE IF ExistsSync(paths[i]) THEN i
       ELSE NextExisting(paths, i + 1)

RemoveFile(name) == [n \in DOMAIN files \ {name} |-> files[n]]

\* assets/images and the rest of the host after fs.unlink(filePath) of a file
FilesAfterUnlink(filePath) ==
  IF InAssetDir(filePath) THEN RemoveFile(Last(filePath)) ELSE files

OutsideAfterUnlink(filePath) ==
  [f \in DOMAIN outside \ {filePath} |-> outside[f]]

DeleteInvalidId(r) ==
  /\ Arrives(r)
  /\ \E id \in DeleteIds :
       /\ id = ""
       /\ rq' = [rq EXCEPT ![r] =
                   Respond([@ EXCEPT !.kind = "delete", !.id = id], 400, "E_INVALID_ID")]
  /\ UNCHANGED <<files, docs, cis, nextId, rewritten, outside>>

\* 1. axios.get DocumentReference/<id> answers with the resource
DeleteFetch(r) ==
  /\ Arrives(r)
  /\ \E id \in DeleteIds :
       /\ id # ""
       /\ id \in DOMAIN docs
       /\ rq' = [rq EXCEPT ![r] =
                   [@ EXCEPT !.kind = "delete", !.id = id, !.pc = "query",
                             !.docRef = docs[id], !.paths = FilePaths(docs[id]),
                             !.log = Append(@, Call("GET", id, "200"))]]
  /\ UNCHANGED <<files, docs, cis, nextId, rewritten, outside>>

\* faulty variant: a 404 of the fetch is treated like the other best-effort steps
AfterFetch404GoesOn(q) == [q EXCEPT !.pc = "remove"]

\* what delete answers to a 404 of the fetch
AfterFetch404(q) == Respond(q, 404, "DocumentReference not found")

DeleteFetchNotFound(r) ==
  /\ Arrives(r)
  /\ \E id \in DeleteIds :
       /\ id # ""
       /\ id \notin DOMAIN docs
       /\ rq' = [rq EXCEPT ![r] =
                   AfterFetch404([@ EXCEPT !.kind = "delete", !.id = id,
                                           !.log = Append(@, Call("GET", id, "404"))])]
  /\ UNCHANGED <<files, docs, cis, nextId, rewritten, outside>>

\* the fetch fails otherwise (no answer, or another status)
DeleteFetchFails(r) ==
  /\ Arrives(r)
  /\ \E id \in DeleteIds :
       /\ id # ""
       /\ rq' = [rq EXCEPT ![r] =
                   Respond([@ EXCEPT !.kind = "delete", !.id = id,
                                     !.log = Append(@, Call("GET", id, "error"))],
                           500, "Failed to fetch DocumentReference")]
  /\ UNCHANGED <<files, docs, cis, nextId, rewritten, outside>>

\* 2. the search for ClinicalImpressions answers
DeleteQuery(r) ==
  /\ rq[r].pc = "query"
  /\ LET q == rq[r]
         found == SearchResult(q.id)
         w == [q EXCEPT !.clinicalImpressions = found, !.found = found,
                        !.log = Append(@, Call("SEARCH", q.id, "200"))]
     IN rq' = [rq EXCEPT ![r] = AfterUpdates(w, NextUpdate(found, 1, q.id))]
  /\ UNCHANGED <<files, docs, cis, nextId, rewritten, outside>>

\* faulty variant: after a failed search delete turns to the local files
AfterQueryErrorSkipsRemove(q) == [q EXCEPT !.pc = "check", !.content = 1]

\* where delete goes on when the search throws
AfterQueryError(q) == [q EXCEPT !.pc = "remove"]

DeleteQueryFails(r) ==
  /\ rq[r].pc = "query"
  /\ rq' = [rq EXCEPT ![r] =
              AfterQueryError([@ EXCEPT !.log =
                                 Append(@, Call("SEARCH", rq[r].id, "error"))])]
  /\ UNCHANGED <<files, docs, cis, nextId, rewritten, outside>>

\* 3. axios.put of a ClinicalImpression without the reference succeeds
DeleteUpdateDependent(r) ==
  /\ rq[r].pc = "update"
  /\ LET q == rq[r]
         old == q.clinicalImpressions[q.ci]
         new == [old EXCEPT !.supportingInfo = FilterSupportingInfo(@, q.id)]
         w == [q EXCEPT !.clinicalImpressions[q.ci] = new,
                        !.log = Append(@, Call("PUT", old.id, "200"))]
     IN /\ cis' = [c \in DOMAIN cis \cup {old.id} |-> IF c = old.id THEN new ELSE cis[c]]
        /\ rq' = [rq EXCEPT ![r] =
                    AfterUpdates(w, NextUpdate(q.clinicalImpressions, q.ci + 1, q.id))]
  /\ UNCHANGED <<files, docs, nextId, rewritten, outside>>

\* where delete goes on when a PUT throws
AfterUpdateError(q) ==
  AfterUpdates(q, NextUpdate(q.clinicalImpressions, q.ci + 1, q.id))

DeleteUpdateFails(r) ==
  /\ rq[r].pc = "update"
  /\ LET q == rq[r]
         old == q.clinicalImpressions[q.ci]
         w == [q EXCEPT !.clinicalImpressions[q.ci].supportingInfo =
                          FilterSupportingInfo(@, q.id),
                        !.log = Append(@, Call("PUT", old.id, "error"))]
     IN rq' = [rq EXCEPT ![r] = AfterUpdateError(w)]
  /\ UNCHANGED <<files, docs, cis, nextId, rewritten, outside>>

\* 4. axios.delete of the DocumentReference succeeds
DeleteRemoveRecord(r) ==
  /\ rq[r].pc = "remove"
  /\ LET q == rq[r]
     IN /\ docs' = [d \in DOMAIN docs \ {q.id} |-> docs[d]]
        /\ rq' = [rq EXCEPT ![r] =
                    [@ EXCEPT !.pc = "check", !.content = 1,
                              !.log = Append(@, Call("DELETE", q.id, "200"))]]
  /\ UNCHANGED <<files, cis, nextId, rewritten, outside>>

\* faulty variant: a failed registry delete ends the request
AfterRemoveErrorIsFatal(q) == Respond(q, 500, "Failed to delete DocumentReference")

\* where delete goes on when axios.delete throws
AfterRemoveError(q) == [q EXCEPT !.pc = "check", !.content = 1]

DeleteRemoveFails(r) ==
  /\ rq[r].pc = "remove"
  /\ rq' = [rq EXCEPT ![r] =
              AfterRemoveError([@ EXCEPT !.log =
                                  Append(@, Call("DELETE", rq[r].id, "error"))])]
  /\ UNCHANGED <<files, docs, cis, nextId, rewritten, outside>>

\* 5. the loop over docRef.content up to its next await: entries whose file
\* is missing are passed over; with none left the request answers 200
DeleteCheck(r) ==
  /\ rq[r].pc = "check"
  /\ LET q == rq[r]
         i == NextExisting(q.paths, q.content)
     IN rq' = [rq EXCEPT ![r] =
                 IF i > Len(q.paths)
                 THEN Respond([q EXCEPT !.content = i], 200, "")
                 ELSE [q EXCEPT !.content = i, !.pc = "unlink"]]
  /\ UNCHANGED <<files, docs, cis, nextId, rewritten, outside>>

\* unlinkAsync(filePath) removes the file
DeleteUnlink(r) ==
  /\ rq[r].pc = "unlink"
  /\ LET q == rq[r]
         filePath == q.paths[q.content]
     IN /\ IsFile(filePath)
        /\ files' = FilesAfterUnlink(filePath)
        /\ outside' = OutsideAfterUnlink(filePath)
        /\ rq' = [rq EXCEPT ![r] =
                    [@ EXCEPT !.pc = "check", !.content = @ + 1,
                              !.log = Append(@, Call("unlink", "", "ok"))]]
  /\ UNCHANGED <<docs, cis, nextId, rewritten>>

\* unlinkAsync throws ENOENT: the file that existsSync saw is gone by now
DeleteUnlinkMissing(r) ==
  /\ rq[r].pc = "unlink"
  /\ ~IsFile(rq[r].paths[rq[r].content])
  /\ ~IsDirectory(rq[r].paths[rq[r].content])
  /\ rq' = [rq EXCEPT ![r] =
              Respond([@ EXCEPT !.log = Append(@, Call("unlink", "ENOENT", "error"))],
                      500, "File deletion error")]
  /\ UNCHANGED <<files, docs, cis, nextId, rewritten, outside>>

\* unlinkAsync throws although the path is there: it is a directory, or the
\* file system refuses
DeleteUnlinkFails(r) ==
  /\ rq[r].pc = "unlink"
  /\ LET filePath == rq[r].paths[rq[r].content]
     IN /\ IsFile(filePath) \/ IsDirectory(filePath)
        /\ rq' = [rq EXCEPT ![r] =
                    Respond([@ EXCEPT !.log =
                               Append(@, Call("unlink",
                                              IF IsDirectory(filePath) THEN "EISDIR"
                                              ELSE "EIO", "error"))],
                            500, "File deletion error")]
  /\ UNCHANGED <<files, docs, cis, nextId, rewritten, outside>>

\* ------------------------------------------------------------- purge
\* faulty variant: the marker is not spared
PurgeableAll(names) == names

\* file !== '.gitkeep'
Purgeable(names) == {n \in names : n # Marker}

\* fs.readdir; with nothing but the marker listed the request answers 200
PurgeList(r) ==
  /\ Arrives(r)
  /\ LET listed == DOMAIN files
         w == [rq[r] EXCEPT !.kind = "purge", !.todo = Purgeable(listed),
                            !.log = Append(@, Call("readdir", "", "ok"))]
     IN rq' = [rq EXCEPT ![r] =
                 IF Purgeable(listed) = {} THEN Respond(w, 200, "")
                 ELSE [w EXCEPT !.pc = "purge"]]
  /\ UNCHANGED <<files, docs, cis, nextId, rewritten, outside>>

\* unlinkAsync of the next listed file; after the last one the request answers 200
PurgeUnlink(r) ==
  /\ rq[r].pc = "purge"
  /\ \E name \in rq[r].todo :
       /\ name \in DOMAIN files
       /\ files' = RemoveFile(name)
       /\ LET w == [rq[r] EXCEPT !.todo = @ \ {name},
                                 !.log = Append(@, Call("unlink", "", "ok"))]
          IN rq' = [rq EXCEPT ![r] =
                      IF w.todo = {} THEN Respond(w, 200, "") ELSE w]
  /\ UNCHANGED <<docs, cis, nextId, rewritten, outside>>

\* unlinkAsync throws ENOENT for a listed file that is gone by now: the
\* outer catch answers 500
PurgeUnlinkMissing(r) ==
  /\ rq[r].pc = "purge"
  /\ \E name \in rq[r].todo : name \notin DOMAIN files
  /\ rq' = [rq EXCEPT ![r] =
              Respond([@ EXCEPT !.log = Append(@, Call("unlink", "ENOENT", "error"))],
                      500, "Files purge error")]
  /\ UNCHANGED <<files, docs, cis, nextId, rewritten, outside>>

\* unlinkAsync throws although the file is there: the outer catch answers 500
PurgeUnlinkFails(r) ==
  /\ rq[r].pc = "purge"
  /\ \E name \in rq[r].todo : name \in DOMAIN files
  /\ rq' = [rq EXCEPT ![r] =
              Respond([@ EXCEPT !.log = Append(@, Call("unlink", "EIO", "error"))],
                      500, "Files purge error")]
  /\ UNCHANGED <<files, docs, cis, nextId, rewritten, outside>>

\* ------------------------------------------------------------- specification
Next ==
  \E r \in Reqs :
    \/ UploadReceiveFails(r)
    \/ UploadNoFile(r)
    \/ UploadReceive(r)
    \/ UploadClassify(r)
    \/ UploadStoreOriginal(r)
    \/ UploadStoreThumbnail(r)
    \/ UploadStoreFails(r)
    \/ UploadRegisterCreated(r)
    \/ UploadRegisterNot201(r)
    \/ UploadRegisterThrows(r)
    \/ DeleteInvalidId(r)
    \/ DeleteFetch(r)
    \/ DeleteFetchNotFound(r)
    \/ DeleteFetchFails(r)
    \/ DeleteQuery(r)
    \/ DeleteQueryFails(r)
    \/ DeleteUpdateDependent(r)
    \/ DeleteUpdateFails(r)
    \/ DeleteRemoveRecord(r)
    \/ DeleteRemoveFails(r)
    \/ DeleteCheck(r)
    \/ DeleteUnlink(r)
    \/ DeleteUnlinkMissing(r)
    \/ DeleteUnlinkFails(r)
    \/ PurgeList(r)
    \/ PurgeUnlink(r)
    \/ PurgeUnlinkMissing(r)
    \/ PurgeUnlinkFails(r)

Spec == Init /\ [][Next]_vars

\* the steps of a request that has been taken up: each of them is the
\* return or the failure of the I/O call the handler waits for
Continue(r) ==
  \/ UploadClassify(r)
  \/ UploadStoreOriginal(r)
  \/ UploadStoreThumbnail(r)
  \/ UploadStoreFails(r)
  \/ UploadRegisterCreated(r)
  \/ UploadRegisterNot201(r)
  \/ UploadRegisterThrows(r)
  \/ DeleteQuery(r)
  \/ DeleteQueryFails(r)
  \/ DeleteUpdateDependent(r)
  \/ DeleteUpdateFails(r)
  \/ DeleteRemoveRecord(r)
  \/ DeleteRemoveFails(r)
  \/ DeleteCheck(r)
  \/ DeleteUnlink(r)
  \/ DeleteUnlinkMissing(r)
  \/ DeleteUnlinkFails(r)
  \/ PurgeUnlink(r)
  \/ PurgeUnlinkMissing(r)
  \/ PurgeUnlinkFails(r)

\* every call a handler awaits returns or fails in the end, so a handler
\* that can go on does go on; that a request arrives at all is not required
FairSpec == Spec /\ \A r \in Reqs : WF_vars(Continue(r))

\* ------------------------------------------------------------- properties
IsUpload(r) == rq[r].kind = "upload"

IsDelete(r) == rq[r].kind = "delete"

IsPurge(r) == rq[r].kind = "purge"

Done(r) == rq[r].pc = "done"

\* the calls of a request to one operation, and those that ended in a result
CallsOf(q, op) == {i \in 1..Len(q.log) : q.log[i].op = op}

CallsWith(q, op, result) == {i \in CallsOf(q, op) : q.log[i].result = result}

\* a delete whose fetch of the DocumentReference succeeded
Fetched(r) == IsDelete(r) /\ CallsWith(rq[r], "GET", "200") # {}

\* a delete that is past steps 2 to 4 (search, updates, registry delete)
CascadeRun(r) == Fetched(r) /\ CallsOf(rq[r], "DELETE") # {}

HasLiteralRef(clinicalImpression, id) ==
  \E k \in 1..Len(clinicalImpression.supportingInfo) :
    clinicalImpression.supportingInfo[k].reference = DocRefOf(id)

\* C1 (as claimed): a delete whose fetch succeeded ends with no local file
\* left that is named by an attachment URL of the fetched record.
C1_NoFileLeftAlways ==
  \A r \in Reqs :
    (Fetched(r) /\ Done(r)) =>
      \A i \in 1..Len(rq[r].docRef.content) :
        Basename(rq[r].docRef.content[i].attachment.url) \notin DOMAIN files

\* C1 (amended): when a delete whose fetch succeeded answers 200, whatever
\* the search, the updates and the registry delete did, no local file named
\* by an attachment URL of the fetched record is left, except a file an
\* upload wrote after the delete began its cleanup.
C1_NoFileLeftOnSuccess ==
  [][\A r \in Reqs :
       (rq[r].pc # "done" /\ rq'[r].kind = "delete" /\ rq'[r].pc = "done"
          /\ rq'[r].status = 200) =>
         \A i \in 1..Len(rq'[r].docRef.content) :
           LET name == Basename(rq'[r].docRef.content[i].attachment.url)
           IN name \in DOMAIN files' => name \in rewritten'[r]]_vars

\* a delete answered 200 after the search and the registry delete failed, and
\* the files of the record, there when it began, are gone
C1_Witness ==
  \E r \in Reqs :
    /\ Fetched(r) /\ Done(r) /\ rq[r].status = 200
    /\ CallsWith(rq[r], "SEARCH", "error") # {}
    /\ CallsWith(rq[r], "DELETE", "error") # {}
    /\ Cardinality(CallsWith(rq[r], "unlink", "ok")) = 2
    /\ SeedName \notin DOMAIN files
    /\ SeedThumb \notin DOMAIN files

\* C2 (as claimed): once a delete of X has run its cascade, no
\* ClinicalImpression on the registry has a supportingInfo entry that
\* references DocumentReference/X.
C2_NoReferenceLeftAlways ==
  \A r \in Reqs :
    CascadeRun(r) => \A c \in DOMAIN cis : ~HasLiteralRef(cis[c], rq[r].id)

\* C2 (amended): once a delete of X has run its cascade with a search that
\* succeeded and updates that all succeeded, no ClinicalImpression the
\* search returned has a supportingInfo entry whose reference is the string
\* DocumentReference/X.
C2_NoReferenceLeftWhenCascadeSucceeds ==
  \A r \in Reqs :
    (CascadeRun(r) /\ CallsWith(rq[r], "SEARCH", "200") # {}
       /\ CallsWith(rq[r], "PUT", "error") = {}) =>
      \A i \in 1..Len(rq[r].clinicalImpressions) :
        LET c == rq[r].clinicalImpressions[i].id
        IN c \in DOMAIN cis => ~HasLiteralRef(cis[c], rq[r].id)

\* a delete of 101 has updated both ClinicalImpressions that referenced it
C2_Witness ==
  \E r \in Reqs :
    /\ CascadeRun(r) /\ rq[r].id = "101"
    /\ Cardinality(CallsWith(rq[r], "PUT", "200")) = 2
    /\ Len(rq[r].clinicalImpressions) = 4
    /\ cis["ci1"].supportingInfo = <<Ref(<<"Observation", "/", "o1">>)>>

\* C3: an upload whose write of the original or of the thumbnail throws ends
\* with 500 and without a POST to the registry; a POST is issued only after
\* all the writes of the upload (one, or two for an image) have succeeded.
C3_StorageFailureBeforeRegistry ==
  \A r \in Reqs :
    IsUpload(r) =>
      /\ CallsWith(rq[r], "write", "error") # {} =>
           /\ Done(r) /\ rq[r].status = 500
           /\ CallsOf(rq[r], "POST") = {}
           /\ rq[r].fhirResponse = <<>>
      /\ (CallsOf(rq[r], "POST") # {} \/ rq[r].pc = "register") =>
           /\ CallsWith(rq[r], "write", "error") = {}
           /\ Cardinality(CallsWith(rq[r], "write", "ok"))
                = IF rq[r].isImage THEN 2 ELSE 1
           /\ \A i \in CallsOf(rq[r], "write"), j \in CallsOf(rq[r], "POST") : i < j

\* an image upload whose original was written and whose thumbnail failed
C3_Witness ==
  \E r \in Reqs :
    /\ IsUpload(r) /\ Done(r) /\ rq[r].isImage
    /\ rq[r].written = {rq[r].filenameFull}
    /\ CallsWith(rq[r], "write", "error") # {}
    /\ rq[r].status = 500

\* C4: an upload answers 200 only if the registry answered its POST with 201.
C4_SuccessOnlyAfter201 ==
  \A r \in Reqs :
    (IsUpload(r) /\ Done(r) /\ rq[r].status = 200) =>
      CallsWith(rq[r], "POST", "201") # {}

\* C5: when the POST to the registry throws, the upload answers 500 and the
\* step leaves the asset directory as it is: the files the upload wrote are
\* not removed and no other file is touched.
C5_NoRollback ==
  [][\A r \in Reqs :
       (rq[r].pc = "register" /\ rq'[r].pc = "done"
          /\ CallsWith(rq'[r], "POST", "error") # {}) =>
         /\ rq'[r].status = 500
         /\ files' = files
         /\ docs' = docs]_vars

\* an image upload failed at the registry and both its files are on disk
C5_Witness ==
  \E r \in Reqs :
    /\ IsUpload(r) /\ Done(r) /\ rq[r].status = 500 /\ rq[r].isImage
    /\ CallsWith(rq[r], "POST", "error") # {}
    /\ Cardinality(rq[r].written) = 2
    /\ rq[r].written \subseteq DOMAIN files
    /\ files[rq[r].filenameFull] = FullImageContent(rq[r].file)
    /\ files[rq[r].thumbnailFilename] = ThumbnailContent(rq[r].file)

\* C6: an upload that received no file, or a file of length 0, answers 400
\* E_NO_FILE and has made no call after the receipt: no write, no POST.
C6_EmptyPayload ==
  \A r \in Reqs :
    (IsUpload(r) /\ CallsWith(rq[r], "receive", "ok") # {}
       /\ (rq[r].file = NoFile \/ rq[r].file.size = 0)) =>
      /\ Done(r) /\ rq[r].status = 400 /\ rq[r].code = "E_NO_FILE"
      /\ Len(rq[r].log) = 1
      /\ rq[r].written = {}
      /\ rq[r].fhirResponse = <<>>

\* an upload of a zero-length buffer has been refused
C6_Witness ==
  \E r \in Reqs :
    /\ IsUpload(r) /\ Done(r) /\ rq[r].file = EmptyFile
    /\ rq[r].code = "E_NO_FILE"

\* C7: a delete whose fetch is answered 404 answers 404 and makes no other
\* call: no search, no update, no registry delete, no unlink.
C7_NotFound ==
  \A r \in Reqs :
    (IsDelete(r) /\ CallsWith(rq[r], "GET", "404") # {}) =>
      /\ Done(r) /\ rq[r].status = 404
      /\ Len(rq[r].log) = 1

\* a delete of an id the registry does not hold has answered 404
C7_Witness ==
  \E r \in Reqs :
    /\ IsDelete(r) /\ Done(r) /\ rq[r].status = 404
    /\ rq[r].id \notin DOMAIN docs

\* C8: a delete whose fetch succeeded goes through every later step whatever
\* fails on the registry: it processes every ClinicalImpression it was given,
\* attempts the registry delete, and answers 200 exactly when no unlink
\* threw; otherwise it answers 500 for the file deletion.
C8_OnlyCleanupFailureSurfaces ==
  \A r \in Reqs :
    (Fetched(r) /\ Done(r)) =>
      /\ CallsOf(rq[r], "SEARCH") # {}
      /\ CallsOf(rq[r], "DELETE") # {}
      /\ \A i \in 1..Len(rq[r].clinicalImpressions) :
           ~HasLiteralRef(rq[r].clinicalImpressions[i], rq[r].id)
      /\ rq[r].status = 200 <=> CallsWith(rq[r], "unlink", "error") = {}
      /\ rq[r].status # 200 =>
           rq[r].status = 500 /\ rq[r].code = "File deletion error"

\* a delete answered 200 although an update and the registry delete failed,
\* and the update after the failed one was still attempted
C8_Witness ==
  \E r \in Reqs :
    /\ Fetched(r) /\ Done(r) /\ rq[r].status = 200
    /\ CallsWith(rq[r], "DELETE", "error") # {}
    /\ \E i \in CallsWith(rq[r], "PUT", "error"), j \in CallsOf(rq[r], "PUT") : i < j

C10_RecordReflectsFiles ==
  \A r \in Reqs :
    (IsUpload(r) /\ (rq[r].pc = "register" \/ CallsOf(rq[r], "POST") # {})) =>
      LET q == rq[r]
          c == q.documentReference.content
      IN IF q.file.format \in AllowedFormats
         THEN /\ Len(c) = 2
              /\ c[1].attachment.title = "full-image"
              /\ c[2].attachment.title = "thumbnail"
              /\ Cardinality(q.written) = 2
              /\ q.written = {Basename(c[1].attachment.url),
                              Basename(c[2].attachment.url)}
              /\ Basename(c[1].attachment.url) = <<q.uniqueId, DotExt(q.file.format)>>
              /\ Basename(c[2].attachment.url)
                   = <<q.uniqueId, "_thumb", DotExt(q.file.format)>>
              /\ c[1].attachment.size = q.file.size
         ELSE /\ Len(c) = 1
              /\ c[1].attachment.title = "file"
              /\ q.written = {Basename(c[1].attachment.url)}
              /\ q.thumbnailFilename = <<>>
              /\ c[1].attachment.contentType
                   = (IF q.file.type = "" THEN OctetStream ELSE q.file.type)
              /\ c[1].attachment.size = q.file.size

\* an image and a text file without declared type have both been registered
C10_Witness ==
  \E r, p \in Reqs :
    /\ IsUpload(r) /\ rq[r].file = PngFile /\ CallsWith(rq[r], "POST", "201") # {}
    /\ IsUpload(p) /\ rq[p].file = TextFile /\ CallsWith(rq[p], "POST", "201") # {}
    /\ rq[p].documentReference.content[1].attachment.contentType = OctetStream

\* what an upload puts under each of the names it has written
WrittenContent(q, name) ==
  IF name = q.thumbnailFilename THEN ThumbnailContent(q.file)
  ELSE IF q.isImage THEN FullImageContent(q.file) ELSE RawContent(q.file)

\* C11: uploads that drew distinct uniqueIds write disjoint sets of files,
\* whatever their payloads and original names: the names they derive differ,
\* the sets of names they have written are disjoint, and a file an upload
\* wrote holds, while it is there, what that upload put in it unless another
\* upload drew the same uniqueId.
C11_DistinctIdsDisjointFiles ==
  \A r \in Reqs :
    (IsUpload(r) /\ rq[r].uniqueId # "") =>
      /\ \A p \in Reqs \ {r} :
           (IsUpload(p) /\ rq[p].uniqueId # "" /\ rq[p].uniqueId # rq[r].uniqueId) =>
             /\ rq[r].written \cap rq[p].written = {}
             /\ ({rq[r].filenameFull, rq[r].thumbnailFilename} \ {<<>>})
                  \cap ({rq[p].filenameFull, rq[p].thumbnailFilename} \ {<<>>}) = {}
      /\ (\A p \in Reqs \ {r} : IsUpload(p) => rq[p].uniqueId # rq[r].uniqueId) =>
           \A name \in rq[r].written \cap DOMAIN files :
             files[name] = WrittenContent(rq[r], name)

\* two uploads in flight at once, an image and a scan with distinct
\* uniqueIds, have written their three files, all of them on disk
C11_Witness ==
  \E r, p \in Reqs :
    /\ IsUpload(r) /\ rq[r].pc = "register" /\ rq[r].file = PngFile
    /\ IsUpload(p) /\ rq[p].pc = "register" /\ rq[p].file = TiffFile
    /\ rq[r].uniqueId # rq[p].uniqueId
    /\ Cardinality(rq[r].written \cup rq[p].written) = 3
    /\ (rq[r].written \cup rq[p].written) \subseteq DOMAIN files

\* the local path of content entry i of a fetched record names nothing
Absent(docRef, i) ==
  LET filePath == FilePath(Basename(docRef.content[i].attachment.url))
  IN ~IsFile(filePath) /\ ~IsDirectory(filePath)

\* C12: a missing file is no error of delete.  When a delete comes to its
\* local cleanup and none of the entries it still has to go through names
\* an existing path, it answers 200 in that step, without an unlink and
\* without a change to the directory.
C12_MissingFileIsNoError ==
  [][\A r \in Reqs :
       (rq[r].kind = "delete" /\ rq[r].pc = "check" /\ rq'[r] # rq[r]
          /\ \A i \in rq[r].content..Len(rq[r].docRef.content) :
               Absent(rq[r].docRef, i)) =>
         /\ rq'[r].pc = "done" /\ rq'[r].status = 200
         /\ rq'[r].log = rq[r].log
         /\ files' = files /\ outside' = outside]_vars

\* a delete of 101 answered 200 without an unlink, after a purge had removed
\* the files of the record
C12_Witness ==
  \E r, p \in Reqs :
    /\ IsPurge(p) /\ Done(p) /\ rq[p].status = 200
    /\ Cardinality(CallsWith(rq[p], "unlink", "ok")) = 2
    /\ Fetched(r) /\ rq[r].id = "101" /\ Done(r) /\ rq[r].status = 200
    /\ CallsOf(rq[r], "DELETE") # {}
    /\ CallsOf(rq[r], "unlink") = {}

\* a reference list without the references that are DocumentReference/<id>,
\* the others in their order
Removed(supportingInfo, id) ==
  LET Keeps(info) == info.reference # DocRefOf(id)
  IN SelectSeq(supportingInfo, Keeps)

\* the PUT calls of a request for one resource
PutsFor(q, resourceId) == {k \in CallsOf(q, "PUT") : q.log[k].arg = resourceId}

\* C13: in a delete of X, for every resource of the search result the loop
\* is through with: a PUT is issued for it, once, exactly when it has a
\* reference list that changes when the references equal to
\* DocumentReference/X are taken out; what is pushed is the resource with
\* that list, all matches removed and the rest in order, and it is what the
\* registry holds after a PUT that succeeded (unless another delete pushed
\* the resource too); a resource without a list or with an unchanged list
\* is left as fetched and gets no PUT.
C13_UpdateIffListChanges ==
  \A r \in Reqs :
    (IsDelete(r) /\ CallsWith(rq[r], "SEARCH", "200") # {}) =>
      LET q == rq[r]
          through == IF q.pc = "update" THEN q.ci - 1 ELSE Len(q.found)
      IN /\ Len(q.clinicalImpressions) = Len(q.found)
         /\ \A i \in 1..through :
              LET changes == /\ q.found[i].isArray
                             /\ Removed(q.found[i].supportingInfo, q.id)
                                  # q.found[i].supportingInfo
              IN IF changes
                 THEN /\ Cardinality(PutsFor(q, q.found[i].id)) = 1
                      /\ q.clinicalImpressions[i].id = q.found[i].id
                      /\ q.clinicalImpressions[i].supportingInfo
                           = Removed(q.found[i].supportingInfo, q.id)
                      /\ (/\ \A k \in PutsFor(q, q.found[i].id) : q.log[k].result = "200"
                          /\ \A p \in Reqs \ {r} : PutsFor(rq[p], q.found[i].id) = {}) =>
                           cis[q.found[i].id] = q.clinicalImpressions[i]
                 ELSE /\ PutsFor(q, q.found[i].id) = {}
                      /\ q.clinicalImpressions[i] = q.found[i]

\* a delete of 101 is through with the four resources of its search result:
\* it pushed ci1 and ci2, and neither ci3, whose one reference names a
\* version of the record, nor the entry that has no list
C13_Witness ==
  \E r \in Reqs :
    /\ IsDelete(r) /\ rq[r].id = "101" /\ rq[r].pc = "remove"
    /\ Len(rq[r].found) = 4
    /\ rq[r].found[3].id = "ci3" /\ rq[r].found[4] = Outcome
    /\ PutsFor(rq[r], "ci1") # {} /\ PutsFor(rq[r], "ci2") # {}
    /\ PutsFor(rq[r], "ci3") = {} /\ PutsFor(rq[r], "outcome") = {}
    /\ cis["ci2"].supportingInfo = <<Ref(<<"Observation", "/", "o2">>)>>

\* the calls of a request to op1 all come before its calls to op2
Before(q, op1, op2) == \A i \in CallsOf(q, op1), j \in CallsOf(q, op2) : i < j

\* C14: the steps of one delete come in a fixed order.  After every step of
\* a delete: it has fetched the record before it searches for dependents,
\* the search before any update, every update before the registry delete,
\* the registry delete (attempted once, whether it succeeded or failed)
\* before any unlink; and a step that removes a file is taken only by a
\* delete that has attempted the registry delete.
C14_StepsInOrder ==
  [][\A r \in Reqs :
       (rq'[r].kind = "delete" /\ rq'[r] # rq[r]) =>
         LET q == rq'[r]
         IN /\ Before(q, "GET", "SEARCH") /\ Before(q, "SEARCH", "PUT")
            /\ Before(q, "PUT", "DELETE") /\ Before(q, "DELETE", "unlink")
            /\ CallsOf(q, "SEARCH") # {} => CallsWith(q, "GET", "200") # {}
            /\ CallsOf(q, "PUT") # {} => CallsWith(q, "SEARCH", "200") # {}
            /\ CallsOf(q, "DELETE") # {} => CallsOf(q, "SEARCH") # {}
            /\ CallsOf(q, "unlink") # {} => CallsOf(q, "DELETE") # {}
            /\ Cardinality(CallsOf(q, "DELETE")) <= 1
            /\ q.pc \in {"check", "unlink"} => CallsOf(q, "DELETE") # {}
            /\ (files' # files \/ outside' # outside) =>
                 CallsOf(rq[r], "DELETE") # {}]_vars

\* a delete of 101 has made every kind of call: the fetch, the search, two
\* updates, the registry delete, which failed, and two unlinks
C14_Witness ==
  \E r \in Reqs :
    /\ Fetched(r) /\ Done(r) /\ rq[r].id = "101"
    /\ Cardinality(CallsOf(rq[r], "PUT")) = 2
    /\ CallsWith(rq[r], "DELETE", "error") # {}
    /\ Cardinality(CallsWith(rq[r], "unlink", "ok")) = 2
    /\ Len(rq[r].log) = 7

\* C15: classification never fails an upload.  An upload that has been
\* classified is an image exactly when the decoding succeeded with a format
\* of the allow-list.  Otherwise (the decoding threw, or the format is
\* another one) it goes the non-image way: its one file is named uniqueId
\* plus the lower-cased original extension and holds the payload as it came
\* (as long as no other upload wrote the same name), no thumbnail is named
\* or written, and the upload fails only if its write or its POST failed.
C15_ClassificationNeverFails ==
  \A r \in Reqs :
    (IsUpload(r) /\ rq[r].uniqueId # "") =>
      LET q == rq[r]
          ext == ExtName(q.file.filename)
      IN /\ q.isImage <=> (q.file.format # "" /\ q.file.format \in AllowedFormats)
         /\ ~q.isImage =>
              /\ q.filenameFull
                   = <<q.uniqueId>> \o [i \in 1..Len(ext) |-> ToLowerCase(ext[i])]
              /\ q.thumbnailFilename = <<>>
              /\ q.written \subseteq {q.filenameFull}
              /\ Cardinality(CallsOf(q, "write")) <= 1
              /\ (/\ q.filenameFull \in q.written \cap DOMAIN files
                  /\ \A p \in Reqs \ {r} : q.filenameFull \notin rq[p].written) =>
                   files[q.filenameFull] = RawContent(q.file)
              /\ (Done(r) /\ rq[r].status # 200) =>
                   CallsWith(q, "write", "error") \cup CallsWith(q, "POST", "error") # {}

\* a scan in a format outside the allow-list and a text that does not decode
\* have both been stored as they came and registered, with 200 as answer
C15_Witness ==
  \E r, p \in Reqs :
    /\ IsUpload(r) /\ rq[r].file = TiffFile /\ Done(r) /\ rq[r].status = 200
    /\ CallsWith(rq[r], "POST", "201") # {}
    /\ rq[r].filenameFull = <<rq[r].uniqueId, ".tif">>
    /\ rq[r].filenameFull \in DOMAIN files
    /\ files[rq[r].filenameFull] = RawContent(TiffFile)
    /\ IsUpload(p) /\ rq[p].file = TextFile /\ Done(p) /\ rq[p].status = 200
    /\ CallsWith(rq[p], "POST", "201") # {}
    /\ rq[p].filenameFull = <<rq[p].uniqueId, ".txt">>
    /\ rq[p].filenameFull \in DOMAIN files
    /\ Len(rq[p].documentReference.content) = 1

\* the stage of the upload pipeline a request is in; it is Registered, with
\* the registry's record in hand, only within the step that answers
Stage(q) ==
  CASE q.pc = "classify" -> "Received"
    [] q.pc \in {"store", "thumbnail"} -> "Classified"
    [] q.pc = "register" -> "Stored"
    [] q.pc = "done" /\ q.status = 200 -> "Completed"
    [] q.pc = "done" /\ q.status # 200 -> "Failed"
    [] OTHER -> "None"

StageRank(stage) ==
  CASE stage = "None" -> 0
    [] stage = "Received" -> 1
    [] stage = "Classified" -> 2
    [] stage = "Stored" -> 3
    [] OTHER -> 5

\* createMetadataRecord has handed over the registry's record and its id
Registered(q) == q.fhirResponse # <<>>

\* a request answers once and does nothing after its answer: the step that
\* ends it sets the status, and once it is done it takes no step
AnswersOnceThenRests ==
  [][\A r \in Reqs :
       /\ rq[r].pc = "done" => rq'[r] = rq[r]
       /\ rq[r].pc # "done" => rq[r].status = 0
       /\ rq'[r].pc = "done" => rq'[r].status \in {200, 400, 404, 500}
       /\ rq'[r] = rq[r] \/ \A p \in Reqs \ {r} : rq'[p] = rq[p]]_vars

\* an upload moves forward through its stages, stays in Completed or Failed
\* once there, and does not skip from Received or Classified to Completed
UploadMovesForward ==
  [][\A r \in Reqs :
       rq'[r].kind = "upload" =>
         /\ StageRank(Stage(rq'[r])) >= StageRank(Stage(rq[r]))
         /\ Stage(rq[r]) \in {"Completed", "Failed"} => Stage(rq'[r]) = Stage(rq[r])
         /\ (Stage(rq'[r]) = "Completed" /\ Stage(rq[r]) # "Completed") =>
              Stage(rq[r]) = "Stored"]_vars

\* an upload reaches Completed only by way of Registered
CompletedOnlyFromRegistered ==
  [][\A r \in Reqs :
       (rq'[r].kind = "upload" /\ Stage(rq'[r]) = "Completed"
          /\ Stage(rq[r]) # "Completed") => Registered(rq'[r])]_vars

\* every request that has been taken up is answered in the end
EveryRequestAnswers == \A r \in Reqs : (rq[r].kind # "idle") ~> (rq[r].pc = "done")

\* C16: every request that has been taken up runs to its answer, answers
\* once and does nothing after it; an upload moves only forward through
\* Received, Classified, Stored and Registered to Completed or Failed, and
\* reaches Completed only from Registered.
C16_RunsToCompletion ==
  /\ AnswersOnceThenRests
  /\ UploadMovesForward
  /\ CompletedOnlyFromRegistered
  /\ EveryRequestAnswers

\* C17: the marker .gitkeep is in the asset directory, with its content, in
\* every reachable state, whatever uploads, deletes and purges run.
C17_MarkerAlwaysPresent ==
  /\ Marker \in DOMAIN files
  /\ files[Marker] = MarkerContent

\* upload u, which came in while no other request was running, answered 200
\* with the id of its record; delete d, the next request, was for that id
\* and answered 200; no request has come in since
RoundTrip(u, d) ==
  /\ IsUpload(u) /\ rq[u].alone /\ Done(u) /\ rq[u].status = 200
  /\ rq[u].fhirResponse # <<>>
  /\ d = u + 1 /\ IsDelete(d) /\ Done(d) /\ rq[d].status = 200
  /\ rq[d].id = rq[u].fhirResponse[1]
  /\ \A p \in Reqs : p > d => rq[p].kind = "idle"

\* C18 (as claimed): after a successful upload followed by a successful
\* delete of the id it returned, with no other request in between, the
\* asset directory holds the files it held before the upload.
C18_RoundTripAlways ==
  \A u, d \in Reqs : RoundTrip(u, d) => DOMAIN files = DOMAIN rq[u].before

\* C18 (amended): after a successful upload followed by a successful delete
\* of the id it returned, with no other request in between, the asset
\* directory is what it was before the upload, names and contents, provided
\* that none of the names the upload generated was in the directory before.
C18_RoundTripOnFreshNames ==
  \A u, d \in Reqs :
    (RoundTrip(u, d) /\ rq[u].written \cap DOMAIN rq[u].before = {}) =>
      files = rq[u].before

\* an image was uploaded under a fresh uniqueId and deleted again: both its
\* files were unlinked and the files of the earlier upload are still there
C18_Witness ==
  \E u, d \in Reqs :
    /\ RoundTrip(u, d) /\ rq[u].isImage /\ rq[u].uniqueId = "9f3e"
    /\ Cardinality(rq[u].written) = 2
    /\ Cardinality(CallsWith(rq[d], "unlink", "ok")) = 2
    /\ rq[u].written \cap DOMAIN files = {}
    /\ {SeedName, SeedThumb, Marker} \subseteq DOMAIN files

\* the unlink calls of a request that the file system itself refused (the
\* path is a directory, or an I/O fault), as opposed to a file gone missing
Refused(q) == {k \in CallsOf(q, "unlink") : q.log[k].arg \in {"EIO", "EISDIR"}}

\* C19: deletes of one id, or a delete and a purge, that run at the same
\* time cause no storage error: unless the file system refuses an unlink,
\* no unlink of a delete fails, and a delete whose fetch succeeded answers
\* 200 with the files of its record gone (or written anew by an upload).
C19_ConcurrentCleanupNoError ==
  \A r \in Reqs :
    (Fetched(r) /\ Refused(rq[r]) = {}) =>
      /\ CallsWith(rq[r], "unlink", "error") = {}
      /\ Done(r) =>
           /\ rq[r].status = 200
           /\ \A i \in 1..Len(rq[r].paths) :
                IsFile(rq[r].paths[i]) => Last(rq[r].paths[i]) \in rewritten[r]

\* name is what url has after its last slash
IsLastSegment(name, url) ==
  /\ \A k \in 1..Len(name) : name[k] # "/"
  /\ Len(url) > Len(name)
  /\ url[Len(url) - Len(name)] = "/"
  /\ SubSeq(url, Len(url) - Len(name) + 1, Len(url)) = name

\* the attachment URLs of a record
UrlsOf(docRef) == {docRef.content[i].attachment.url : i \in 1..Len(docRef.content)}

\* C20: a step of a delete leaves every file outside assets/images as it
\* was, adds and changes no file of assets/images, and removes from it only
\* entries named by the last path segment of an attachment URL of the record
\* the delete fetched.
C20_DeleteConfinedToRecord ==
  [][\A r \in Reqs :
       (rq'[r] # rq[r] /\ rq'[r].kind = "delete") =>
         /\ outside' = outside
         /\ DOMAIN files' \subseteq DOMAIN files
         /\ \A name \in DOMAIN files' : files'[name] = files[name]
         /\ \A name \in DOMAIN files \ DOMAIN files' :
              \E url \in UrlsOf(rq[r].docRef) : IsLastSegment(name, url)]_vars

\* a delete of the record with the foreign URLs has removed the one entry
\* its URLs name; app.js and the files of the other record are as before
C20_Witness ==
  \E r \in Reqs :
    /\ IsDelete(r) /\ rq[r].id = "100"
    /\ CallsWith(rq[r], "unlink", "ok") # {}
    /\ Marker \notin DOMAIN files
    /\ AppFile \in DOMAIN outside /\ outside[AppFile] = AppContent
    /\ SeedName \in DOMAIN files /\ SeedThumb \in DOMAIN files

====
